---- MODULE Spec2Model ----
(***************************************************************************)
(* A model of conversion/scrape_profiles.py: the run of main() over a      *)
(* record set, with the worker pool of the initial sweep, the sequential   *)
(* retry rounds, the reconciliation of each fetch result into the record   *)
(* store and the final write.                                              *)
(*                                                                         *)
(* A record (a Python dict loaded from JSON) is a function whose DOMAIN is *)
(* the set of keys present.  A missing key and the value None are both     *)
(* represented, for the URL, by the empty string: every use of the URL in  *)
(* the code tests it for truthiness or compares it with a non-empty URL.   *)
(***************************************************************************)
EXTENDS Integers, Sequences, FiniteSets, TLC

VARIABLES
    served,          \* what the site answers to each GET of each entry, when
                     \* that is settled before the run; <<>> when it is open
    input,           \* the record set as json.load returned it
    ex,              \* one call of extract_badges_from_html: its argument,
                     \* where it is, its locals
    args,            \* parsed command line: concurrency, retries, dry_run, max
    data,            \* the record store: a sequence of dicts
    futures,         \* one future per submitted entry: st, result, err
    updated,         \* counter of applied updates
    errors,          \* counter of errors
    failed_fetches,  \* the failure queue: <<entry, url, err_msg>> tuples
    remaining,       \* the next round's queue, built during a retry round
    attempt,         \* the retry loop's variable
    pos,             \* position of the inner loop in failed_fetches (1-based)
    pc,              \* where main() is
    loc,             \* main()'s locals of the loop iteration last executed
                     \* (cleared when the loop ends: nothing reads them again)
    fetch_log,       \* per entry, the outcome of every GET issued for it
    output           \* what has been written to the output file

vars == <<served, input, ex, args, data, futures, updated, errors, failed_fetches, remaining,
          attempt, pos, pc, loc, fetch_log, output>>

----------------------------------------------------------------------------
(* Bounds of the model *)

MaxRecords == 2
MaxRetries == 2
MaxConcurrency == 2
MaxCap == 1

(* Program constants *)

CompletionBadges == 19
CompletionArcade == 1

(* Field names *)

K_URL == "Google Cloud Skills Boost Profile URL"
K_URL2 == "Profile URL"
K_NAME == "User Name"
K_BADGES == "# of Skill Badges Completed"
K_BADGE_NAMES == "Names of Completed Skill Badges"
K_ARCADE == "# of Arcade Games Completed"
K_ARCADE_NAMES == "Names of Completed Arcade Games"
K_COURSES == "# of Courses Completed"
K_ALL_DONE == "All Skill Badges & Games Completed"
K_PATHWAYS == "All 3 Pathways Completed - Yes or No"
K_GENAI == "Gen AI Arcade Game Completion"

----------------------------------------------------------------------------
(* Python helpers *)

\* ' | '.join(names)
RECURSIVE Join(_)
Join(names) ==
    IF Len(names) = 0 THEN ""
    ELSE IF Len(names) = 1 THEN names[1]
    ELSE names[1] \o " | " \o Join(Tail(names))

\* a in b, on strings
Contains(a, b) ==
    \E i \in 1..(Len(b) - Len(a) + 1) : SubSeq(b, i, i + Len(a) - 1) = a

\* m[k] = v on a dict
Put(m, k, v) == [x \in (DOMAIN m) \cup {k} |-> IF x = k THEN v ELSE m[x]]

\* int(m.get(k) or 0)
IntOr0(m, k) == IF k \in DOMAIN m THEN m[k] ELSE 0

\* e.get('Google Cloud Skills Boost Profile URL') or e.get('Profile URL')
UrlOf(e) ==
    IF K_URL \in DOMAIN e /\ e[K_URL] # "" THEN e[K_URL]
    ELSE IF K_URL2 \in DOMAIN e THEN e[K_URL2]
    ELSE ""

----------------------------------------------------------------------------
(* Inputs: what the remote site answers, and the record sets loaded *)

\* What extract_badges_from_html returns for the pages the site serves:
\* deduplicated, tagged names.  A pair <<b, a>> is a page proving b skill
\* badges and a arcade games.
PageCounts == {<<0, 0>>, <<15, 2>>, <<16, 1>>, <<19, 1>>, <<18, 5>>}

BadgeNames(n) == [i \in 1..n |-> "Badge " \o ToString(i) \o " [Skill Badge]"]

GameNames(n) == [i \in 1..n |-> "Level " \o ToString(i) \o ": Arcade [Game]"]

ExtractOutputs ==
    {[badges |-> BadgeNames(p[1]), arcade_games |-> GameNames(p[2])] : p \in PageCounts}

\* str(e) of the exceptions requests.get and raise_for_status raise: these
\* carry a message, so the string is not empty
ErrorMessages == {"503 Server Error"}

\* The results fetch_profile(url) can return.  error = "" stands for a
\* result without the 'error' key.
fetch_profile(url) ==
    {[url |-> url, error |-> e, badges |-> <<>>, arcade_games |-> <<>>] :
        e \in ErrorMessages}
    \cup
    {[url |-> url, error |-> "", badges |-> x.badges, arcade_games |-> x.arcade_games] :
        x \in ExtractOutputs}

\* worker() returned (entry, None, 'no-url'), or nothing has been fetched
NoResult == [url |-> "", error |-> "", badges |-> <<>>, arcade_games |-> <<>>]

\* a record with every field; its course total was filled in by hand and is
\* not the sum of its two counts
Alice ==
    (K_NAME :> "Alice") @@ (K_URL :> "prof/a") @@
    (K_BADGES :> 15) @@ (K_BADGE_NAMES :> Join(BadgeNames(15))) @@
    (K_ARCADE :> 2) @@ (K_ARCADE_NAMES :> Join(GameNames(2))) @@
    (K_COURSES :> 20) @@
    (K_ALL_DONE :> "No") @@ (K_PATHWAYS :> "No") @@ (K_GENAI :> "1")

\* a record that has only the second URL field, no counts and no flags
Bob == (K_NAME :> "Bob") @@ (K_URL2 :> "prof/b")

\* a record without a usable URL
Carol ==
    (K_NAME :> "Carol") @@ (K_URL :> "") @@
    (K_BADGES :> 3) @@ (K_BADGE_NAMES :> Join(BadgeNames(3))) @@
    (K_ARCADE :> 0) @@ (K_ARCADE_NAMES :> "") @@ (K_COURSES :> 3) @@
    (K_PATHWAYS :> "No")

SampleRecords == {Alice, Bob, Carol}

\* the record sets json.load can return: 1..MaxRecords sample records, one
\* record per user
Datasets ==
    UNION {{d \in [1..n -> SampleRecords] :
              \A i, j \in 1..n : i # j => d[i][K_NAME] # d[j][K_NAME]} :
           n \in 1..MaxRecords}

\* the command lines: --concurrency, --retries, --dry-run, --max
ArgSets ==
    [concurrency : 1..MaxConcurrency, retries : 0..MaxRetries,
     dry_run : BOOLEAN, max : 0..MaxCap]

----------------------------------------------------------------------------
(* The reconciliation of the initial sweep, lines 247-298 *)

\* a mutant of IsFailure: the two "not" are missing
IsFailureMissingNot(result) ==
    (Len(result.badges) # 0 \/ Len(result.arcade_games) # 0) /\ result.error # ""

\* line 240: not badges and not arcade_games and result.get('error')
IsFailure(result) ==
    Len(result.badges) = 0 /\ Len(result.arcade_games) = 0 /\ result.error # ""

\* a mutant of FindMatched: one pass that takes the first record whose URL
\* equals or contains, or is contained in, the outcome's URL
FindMatchedOnePass(d, url) ==
    LET close == {i \in 1..Len(d) :
                    \/ UrlOf(d[i]) = url
                    \/ (UrlOf(d[i]) # "" /\ Contains(url, UrlOf(d[i])))
                    \/ (UrlOf(d[i]) # "" /\ Contains(UrlOf(d[i]), url))}
    IN  IF close # {} THEN CHOOSE i \in close : \A j \in close : i <= j
        ELSE 0


\* lines 249-261: the first record whose URL equals url, else the first in a
\* containment relation with it; 0 for None
FindMatched(d, url) ==
    LET exact == {i \in 1..Len(d) : UrlOf(d[i]) = url}
        loose == {i \in 1..Len(d) :
                    \/ (UrlOf(d[i]) # "" /\ Contains(url, UrlOf(d[i])))
                    \/ (UrlOf(d[i]) # "" /\ Contains(UrlOf(d[i]), url))}
    IN  IF exact # {} THEN CHOOSE i \in exact : \A j \in exact : i <= j
        ELSE IF loose # {} THEN CHOOSE i \in loose : \A j \in loose : i <= j
        ELSE 0

\* a mutant of ShouldUpdate: >= for > on the skill badges
ShouldUpdateNonStrict(old_badge_count, old_arcade_count, new_badge_count, new_arcade_count) ==
    new_badge_count >= old_badge_count \/ new_arcade_count > old_arcade_count

\* line 273
ShouldUpdate(old_badge_count, old_arcade_count, new_badge_count, new_arcade_count) ==
    new_badge_count > old_badge_count \/ new_arcade_count > old_arcade_count

\* a mutant of CompletionMet: or for and
CompletionMetEither(new_badge_count, new_arcade_count) ==
    new_badge_count >= CompletionBadges \/ new_arcade_count >= CompletionArcade

\* line 288
CompletionMet(new_badge_count, new_arcade_count) ==
    new_badge_count >= CompletionBadges /\ new_arcade_count >= CompletionArcade

\* a mutant of UpdateRecord: each category is written only if it improved
UpdateRecordImprovedOnly(matched, badges, arcade_games) ==
    LET new_badge_count == IF Len(badges) > IntOr0(matched, K_BADGES)
                           THEN Len(badges) ELSE IntOr0(matched, K_BADGES)
        new_arcade_count == IF Len(arcade_games) > IntOr0(matched, K_ARCADE)
                            THEN Len(arcade_games) ELSE IntOr0(matched, K_ARCADE)
        flag == IF new_badge_count >= CompletionBadges /\ new_arcade_count >= CompletionArcade
                THEN "Yes" ELSE "No"
        m1 == IF Len(badges) > IntOr0(matched, K_BADGES)
              THEN Put(Put(matched, K_BADGES, new_badge_count), K_BADGE_NAMES, Join(badges))
              ELSE matched
        m2 == IF Len(arcade_games) > IntOr0(matched, K_ARCADE)
              THEN Put(Put(m1, K_ARCADE, new_arcade_count), K_ARCADE_NAMES, Join(arcade_games))
              ELSE m1
        m3 == Put(m2, K_COURSES, new_badge_count + new_arcade_count)
        m4 == IF K_ALL_DONE \in DOMAIN m3 THEN Put(m3, K_ALL_DONE, flag) ELSE m3
        m5 == Put(m4, K_PATHWAYS, flag)
    IN  IF K_GENAI \in DOMAIN m5
        THEN Put(m5, K_GENAI, IF new_arcade_count > 0 THEN "1" ELSE "0")
        ELSE m5

\* a mutant of UpdateRecord: the course total is not recomputed
UpdateRecordStaleTotal(matched, badges, arcade_games) ==
    LET new_badge_count == Len(badges)
        new_arcade_count == Len(arcade_games)
        flag == IF new_badge_count >= CompletionBadges /\ new_arcade_count >= CompletionArcade
                THEN "Yes" ELSE "No"
        m1 == Put(matched, K_BADGES, new_badge_count)
        m2 == Put(m1, K_BADGE_NAMES, Join(badges))
        m3 == Put(m2, K_ARCADE, new_arcade_count)
        m4 == Put(m3, K_ARCADE_NAMES, Join(arcade_games))
        m6 == IF K_ALL_DONE \in DOMAIN m4 THEN Put(m4, K_ALL_DONE, flag) ELSE m4
        m7 == Put(m6, K_PATHWAYS, flag)
    IN  IF K_GENAI \in DOMAIN m7
        THEN Put(m7, K_GENAI, IF new_arcade_count > 0 THEN "1" ELSE "0")
        ELSE m7

\* lines 277-296
UpdateRecord(matched, badges, arcade_games) ==
    LET new_badge_count == Len(badges)
        new_arcade_count == Len(arcade_games)
        flag == IF CompletionMet(new_badge_count, new_arcade_count) THEN "Yes" ELSE "No"
        m1 == Put(matched, K_BADGES, new_badge_count)
        m2 == Put(m1, K_BADGE_NAMES, Join(badges))
        m3 == Put(m2, K_ARCADE, new_arcade_count)
        m4 == Put(m3, K_ARCADE_NAMES, Join(arcade_games))
        m5 == Put(m4, K_COURSES, new_badge_count + new_arcade_count)
        m6 == IF K_ALL_DONE \in DOMAIN m5 THEN Put(m5, K_ALL_DONE, flag) ELSE m5
        m7 == Put(m6, K_PATHWAYS, flag)
        m8 == IF K_GENAI \in DOMAIN m7
              THEN Put(m7, K_GENAI, IF new_arcade_count > 0 THEN "1" ELSE "0")
              ELSE m7
    IN  m8

----------------------------------------------------------------------------
(* The reconciliation of a retry round, lines 324-366 *)

\* line 316: result.get('error')
RetryIsFailure(result) == result.error # ""

\* lines 325-335
RetryFindMatched(d, url) ==
    LET exact == {i \in 1..Len(d) : UrlOf(d[i]) = url}
        loose == {i \in 1..Len(d) :
                    UrlOf(d[i]) # "" /\
                    (Contains(url, UrlOf(d[i])) \/
                     (UrlOf(d[i]) # "" /\ Contains(UrlOf(d[i]), url)))}
    IN  IF exact # {} THEN CHOOSE i \in exact : \A j \in exact : i <= j
        ELSE IF loose # {} THEN CHOOSE i \in loose : \A j \in loose : i <= j
        ELSE 0

\* line 346
RetryShouldUpdate(old_badge_count, old_arcade_count, new_badge_count, new_arcade_count) ==
    new_badge_count > old_badge_count \/ new_arcade_count > old_arcade_count

\* line 359
RetryCompletionMet(new_badge_count, new_arcade_count) ==
    new_badge_count >= CompletionBadges /\ new_arcade_count >= CompletionArcade

\* lines 350-364
RetryUpdateRecord(matched, badges, arcade_games) ==
    LET new_badge_count == Len(badges)
        new_arcade_count == Len(arcade_games)
        flag == IF RetryCompletionMet(new_badge_count, new_arcade_count) THEN "Yes" ELSE "No"
        m1 == Put(matched, K_BADGES, new_badge_count)
        m2 == Put(m1, K_BADGE_NAMES, Join(badges))
        m3 == Put(m2, K_ARCADE, new_arcade_count)
        m4 == Put(m3, K_ARCADE_NAMES, Join(arcade_games))
        m5 == Put(m4, K_COURSES, new_badge_count + new_arcade_count)
        m6 == IF K_ALL_DONE \in DOMAIN m5 THEN Put(m5, K_ALL_DONE, flag) ELSE m5
        m7 == Put(m6, K_PATHWAYS, flag)
        m8 == IF K_GENAI \in DOMAIN m7
              THEN Put(m7, K_GENAI, IF new_arcade_count > 0 THEN "1" ELSE "0")
              ELSE m7
    IN  m8

----------------------------------------------------------------------------
(* The state after argument parsing and json.load, lines 204-225 *)

\* no call of extract_badges_from_html is modelled in this run
ExIdle == [phase |-> "idle", page |-> <<>>, badges |-> <<>>, arcade_games |-> <<>>,
           seen_badges |-> {}, seen_arcade |-> {}]

NoLoc == [result |-> NoResult, matched |-> 0,
          old_badge_count |-> 0, old_arcade_count |-> 0]

\* line 221: data if args.max <= 0 else data[:args.max]; entries are
\* references to the dicts of data, here their indexes
to_process(d, a) ==
    IF a.max <= 0 THEN 1..Len(d)
    ELSE 1..(IF a.max < Len(d) THEN a.max ELSE Len(d))

\* the orchestration of a run, from a record set of datasets
InitOn(datasets) ==
    /\ args \in ArgSets
    /\ data \in datasets
    /\ input = data
    /\ served = <<>>
    /\ ex = ExIdle
    /\ futures = <<>>
    /\ updated = 0
    /\ errors = 0
    /\ failed_fetches = <<>>
    /\ remaining = <<>>
    /\ attempt = 0
    /\ pos = 0
    /\ pc = "submit"
    /\ loc = NoLoc
    /\ fetch_log = [i \in 1..Len(data) |-> <<>>]
    /\ output = <<>>

Init == InitOn(Datasets)

\* where the coordinator is while the pool of line 227 is open: waiting in
\* as_completed (line 229), or between the comparison of line 273 and the
\* writes of lines 277-298
PoolOpen == {"sweep", "updating"}


----------------------------------------------------------------------------
(* The worker pool, lines 195-201 and 227-228 *)

Running == {i \in 1..Len(futures) : futures[i].st = "running"}

\* line 228: one future per entry of to_process
Submit ==
    /\ pc = "submit"
    /\ futures' = [i \in to_process(data, args) |->
                     [st |-> "pending", result |-> NoResult, err |-> ""]]
    /\ pc' = "sweep"
    /\ UNCHANGED <<served, input, ex, args, data, updated, errors, failed_fetches, remaining,
                   attempt, pos, loc, fetch_log, output>>

\* a mutant of WorkerStart: the pool starts a task whenever one is pending
WorkerStartUnbounded(i) ==
    /\ pc \in PoolOpen
    /\ futures[i].st = "pending"
    /\ \A j \in 1..(i - 1) : futures[j].st # "pending"
    /\ futures' = [futures EXCEPT ![i].st = "running"]
    /\ UNCHANGED <<served, input, ex, args, data, updated, errors, failed_fetches, remaining,
                   attempt, pos, pc, loc, fetch_log, output>>


\* a pool thread takes the oldest queued task; at most max_workers threads
WorkerStart(i) ==
    /\ pc \in PoolOpen
    /\ futures[i].st = "pending"
    /\ \A j \in 1..(i - 1) : futures[j].st # "pending"
    /\ Cardinality(Running) < args.concurrency
    /\ futures' = [futures EXCEPT ![i].st = "running"]
    /\ UNCHANGED <<served, input, ex, args, data, updated, errors, failed_fetches, remaining,
                   attempt, pos, pc, loc, fetch_log, output>>

\* lines 196-198: no usable URL
WorkerNoUrl(i) ==
    /\ pc \in PoolOpen
    /\ futures[i].st = "running"
    /\ UrlOf(data[i]) = ""
    /\ futures' = [futures EXCEPT ![i] =
                     [st |-> "done", result |-> NoResult, err |-> "no-url"]]
    /\ UNCHANGED <<served, input, ex, args, data, updated, errors, failed_fetches, remaining,
                   attempt, pos, pc, loc, fetch_log, output>>

\* a mutant of WorkerFetch: the worker stores the counts it fetched in its
\* entry
WorkerFetchStores(i) ==
    /\ pc \in PoolOpen
    /\ futures[i].st = "running"
    /\ UrlOf(data[i]) # ""
    /\ \E r \in fetch_profile(UrlOf(data[i])) :
         /\ futures' = [futures EXCEPT ![i] =
                          [st |-> "done", result |-> r, err |-> ""]]
         /\ fetch_log' = [fetch_log EXCEPT ![i] =
                            Append(@, IF r.error # "" THEN "error" ELSE "ok")]
         /\ data' = [data EXCEPT ![i] =
                       Put(Put(@, K_BADGES, Len(r.badges)),
                           K_ARCADE, Len(r.arcade_games))]
    /\ UNCHANGED <<served, input, ex, args, updated, errors, failed_fetches, remaining,
                   attempt, pos, pc, loc, output>>

\* lines 199-201: fetch, sleep, return
WorkerFetch(i) ==
    /\ pc \in PoolOpen
    /\ futures[i].st = "running"
    /\ UrlOf(data[i]) # ""
    /\ \E r \in fetch_profile(UrlOf(data[i])) :
         /\ futures' = [futures EXCEPT ![i] =
                          [st |-> "done", result |-> r, err |-> ""]]
         /\ fetch_log' = [fetch_log EXCEPT ![i] =
                            Append(@, IF r.error # "" THEN "error" ELSE "ok")]
    /\ UNCHANGED <<served, input, ex, args, data, updated, errors, failed_fetches, remaining,
                   attempt, pos, pc, loc, output>>

----------------------------------------------------------------------------
(* The initial sweep's loop over as_completed, lines 229-298 *)

\* a future whose result the loop has taken: nothing reads it again
Consumed == [st |-> "handled", result |-> NoResult, err |-> ""]

\* a mutant of SweepNoUrl: the entry is counted as an error and queued for the
\* retry rounds
SweepNoUrlCounts(i) ==
    /\ pc = "sweep"
    /\ futures[i].st = "done"
    /\ futures[i].err = "no-url"
    /\ errors' = errors + 1
    /\ failed_fetches' = Append(failed_fetches, <<i, "", "no-url">>)
    /\ futures' = [futures EXCEPT ![i] = Consumed]
    /\ loc' = NoLoc
    /\ UNCHANGED <<served, input, ex, args, data, updated, remaining, attempt, pos, pc,
                   fetch_log, output>>

\* lines 231-232.  The branch of lines 233-235 (result is None without
\* 'no-url') is unreachable: worker() returns None only with 'no-url'.
SweepNoUrl(i) ==
    /\ pc = "sweep"
    /\ futures[i].st = "done"
    /\ futures[i].err = "no-url"
    /\ futures' = [futures EXCEPT ![i] = Consumed]
    /\ loc' = NoLoc
    /\ UNCHANGED <<served, input, ex, args, data, updated, errors, failed_fetches, remaining,
                   attempt, pos, pc, fetch_log, output>>

\* a mutant of SweepFailure: the failure ends the run, as an exception out of
\* fut.result() would
SweepFailureAborts(i) ==
    /\ pc = "sweep"
    /\ futures[i].st = "done"
    /\ futures[i].err # "no-url"
    /\ IsFailure(futures[i].result)
    /\ errors' = errors + 1
    /\ futures' = [futures EXCEPT ![i] = Consumed]
    /\ loc' = [NoLoc EXCEPT !.result = futures[i].result]
    /\ pc' = "aborted"
    /\ UNCHANGED <<served, input, ex, args, data, updated, failed_fetches, remaining, attempt,
                   pos, fetch_log, output>>

\* lines 240-245
SweepFailure(i) ==
    /\ pc = "sweep"
    /\ futures[i].st = "done"
    /\ futures[i].err # "no-url"
    /\ IsFailure(futures[i].result)
    /\ errors' = errors + 1
    /\ failed_fetches' = Append(failed_fetches,
                                <<i, futures[i].result.url, futures[i].result.error>>)
    /\ futures' = [futures EXCEPT ![i] = Consumed]
    /\ loc' = [NoLoc EXCEPT !.result = futures[i].result]
    /\ UNCHANGED <<served, input, ex, args, data, updated, remaining, attempt, pos, pc,
                   fetch_log, output>>

\* a mutant of SweepReconcile: the stored counts are read once, for the first
\* record matched, and the later iterations compare with those
SweepReconcileStale(i) ==
    /\ pc = "sweep"
    /\ futures[i].st = "done"
    /\ futures[i].err # "no-url"
    /\ ~IsFailure(futures[i].result)
    /\ LET result == futures[i].result
           matched == FindMatched(data, result.url)
       IN  IF matched = 0
           THEN /\ loc' = [NoLoc EXCEPT !.result = result]
                /\ UNCHANGED <<data, updated>>
           ELSE LET old_badge_count == IF loc.matched # 0 THEN loc.old_badge_count
                                       ELSE IntOr0(data[matched], K_BADGES)
                    old_arcade_count == IF loc.matched # 0 THEN loc.old_arcade_count
                                        ELSE IntOr0(data[matched], K_ARCADE)
                IN  /\ loc' = [result |-> result, matched |-> matched,
                               old_badge_count |-> old_badge_count,
                               old_arcade_count |-> old_arcade_count]
                    /\ IF ShouldUpdate(old_badge_count, old_arcade_count,
                                       Len(result.badges), Len(result.arcade_games))
                       THEN /\ data' = [data EXCEPT ![matched] =
                                          UpdateRecord(@, result.badges, result.arcade_games)]
                            /\ updated' = updated + 1
                       ELSE UNCHANGED <<data, updated>>
    /\ futures' = [futures EXCEPT ![i] = Consumed]
    /\ UNCHANGED <<served, input, ex, args, errors, failed_fetches, remaining, attempt,
                   pos, pc, fetch_log, output>>

\* lines 247-298
SweepReconcile(i) ==
    /\ pc = "sweep"
    /\ futures[i].st = "done"
    /\ futures[i].err # "no-url"
    /\ ~IsFailure(futures[i].result)
    /\ LET result == futures[i].result
           matched == FindMatched(data, result.url)
       IN  IF matched = 0
           THEN /\ loc' = [NoLoc EXCEPT !.result = result]
                /\ UNCHANGED <<data, updated>>
           ELSE LET old_badge_count == IntOr0(data[matched], K_BADGES)
                    old_arcade_count == IntOr0(data[matched], K_ARCADE)
                IN  /\ loc' = [result |-> result, matched |-> matched,
                               old_badge_count |-> old_badge_count,
                               old_arcade_count |-> old_arcade_count]
                    /\ IF ShouldUpdate(old_badge_count, old_arcade_count,
                                       Len(result.badges), Len(result.arcade_games))
                       THEN /\ data' = [data EXCEPT ![matched] =
                                          UpdateRecord(@, result.badges, result.arcade_games)]
                            /\ updated' = updated + 1
                       ELSE UNCHANGED <<data, updated>>
    /\ futures' = [futures EXCEPT ![i] = Consumed]
    /\ UNCHANGED <<served, input, ex, args, errors, failed_fetches, remaining, attempt, pos, pc,
                   fetch_log, output>>

\* the pool is drained; line 301: if args.retries and failed_fetches
SweepEnd ==
    /\ pc = "sweep"
    /\ \A i \in 1..Len(futures) : futures[i].st = "handled"
    /\ IF args.retries # 0 /\ failed_fetches # <<>>
       THEN pc' = "round" /\ attempt' = 1
       ELSE pc' = "summary" /\ UNCHANGED attempt
    /\ loc' = NoLoc
    /\ UNCHANGED <<served, input, ex, args, data, futures, updated, errors, failed_fetches,
                   remaining, pos, fetch_log, output>>

----------------------------------------------------------------------------
(* The retry rounds, lines 302-372 *)

\* a mutant of RoundRuns: range(1, retries + 2)
RoundRunsOffByOne(n, retries, failed) == n <= retries + 1 /\ failed # <<>>

\* lines 302-304: attempt in range(1, retries + 1), and not the break
RoundRuns(n, retries, failed) == n <= retries /\ failed # <<>>

\* a mutant of NextQueue: the queue is never replaced by the round's failures
NextQueueKeepsAll(failed, rem) == failed

\* line 369
NextQueue(failed, rem) == rem

RoundStart ==
    /\ pc = "round"
    /\ IF RoundRuns(attempt, args.retries, failed_fetches)
       THEN /\ remaining' = <<>>
            /\ pos' = 1
            /\ pc' = "retry_next"
       ELSE /\ pc' = "summary"
            /\ UNCHANGED <<remaining, pos>>
    /\ UNCHANGED <<served, input, ex, args, data, futures, updated, errors, failed_fetches,
                   attempt, loc, fetch_log, output>>

\* line 309: the GET of the next queued entry is issued
RetryIssue ==
    /\ pc = "retry_next"
    /\ pos <= Len(failed_fetches)
    /\ pc' = "retry_fetching"
    /\ UNCHANGED <<served, input, ex, args, data, futures, updated, errors, failed_fetches,
                   remaining, attempt, pos, loc, fetch_log, output>>

\* lines 316-320.  The except branch of lines 310-314 is unreachable:
\* fetch_profile catches every Exception of the GET itself.
RetryFailure ==
    /\ pc = "retry_fetching"
    /\ LET entry == failed_fetches[pos][1]
           url == failed_fetches[pos][2]
       IN  \E result \in fetch_profile(url) :
             /\ RetryIsFailure(result)
             /\ remaining' = Append(remaining, <<entry, url, result.error>>)
             /\ loc' = [NoLoc EXCEPT !.result = result]
             /\ fetch_log' = [fetch_log EXCEPT ![entry] = Append(@, "error")]
    /\ pos' = pos + 1
    /\ pc' = "retry_next"
    /\ UNCHANGED <<served, input, ex, args, data, futures, updated, errors, failed_fetches,
                   attempt, output>>

\* lines 322-367
RetryReconcile ==
    /\ pc = "retry_fetching"
    /\ LET entry == failed_fetches[pos][1]
           url == failed_fetches[pos][2]
       IN  \E result \in fetch_profile(url) :
             /\ ~RetryIsFailure(result)
             /\ fetch_log' = [fetch_log EXCEPT ![entry] = Append(@, "ok")]
             /\ LET matched == RetryFindMatched(data, url)
                IN  IF matched = 0
                    THEN /\ loc' = [NoLoc EXCEPT !.result = result]
                         /\ UNCHANGED <<data, updated>>
                    ELSE LET old_badge_count == IntOr0(data[matched], K_BADGES)
                             old_arcade_count == IntOr0(data[matched], K_ARCADE)
                         IN  /\ loc' = [result |-> result, matched |-> matched,
                                        old_badge_count |-> old_badge_count,
                                        old_arcade_count |-> old_arcade_count]
                             /\ IF RetryShouldUpdate(old_badge_count, old_arcade_count,
                                                     Len(result.badges),
                                                     Len(result.arcade_games))
                                THEN /\ data' = [data EXCEPT ![matched] =
                                                   RetryUpdateRecord(@, result.badges,
                                                                     result.arcade_games)]
                                     /\ updated' = updated + 1
                                ELSE UNCHANGED <<data, updated>>
    /\ pos' = pos + 1
    /\ pc' = "retry_next"
    /\ UNCHANGED <<served, input, ex, args, futures, errors, failed_fetches, remaining, attempt,
                   output>>

\* line 369, and the next value of the for loop
RoundEnd ==
    /\ pc = "retry_next"
    /\ pos > Len(failed_fetches)
    /\ failed_fetches' = NextQueue(failed_fetches, remaining)
    /\ attempt' = attempt + 1
    /\ pc' = "round"
    /\ loc' = NoLoc
    /\ UNCHANGED <<served, input, ex, args, data, futures, updated, errors, remaining, pos,
                   fetch_log, output>>

----------------------------------------------------------------------------
(* The summary and the write, lines 374-379 *)

\* line 376
ShouldWrite(a, n) == ~a.dry_run /\ n > 0

WriteOutput ==
    /\ pc = "summary"
    /\ ShouldWrite(args, updated)
    /\ output' = Append(output, data)
    /\ pc' = "exit"
    /\ UNCHANGED <<served, input, ex, args, data, futures, updated, errors, failed_fetches,
                   remaining, attempt, pos, loc, fetch_log>>

SkipWrite ==
    /\ pc = "summary"
    /\ ~ShouldWrite(args, updated)
    /\ pc' = "exit"
    /\ UNCHANGED <<served, input, ex, args, data, futures, updated, errors, failed_fetches,
                   remaining, attempt, pos, loc, fetch_log, output>>

----------------------------------------------------------------------------

Next ==
    \/ Submit
    \/ \E i \in 1..Len(futures) : WorkerStart(i)
    \/ \E i \in 1..Len(futures) : WorkerNoUrl(i)
    \/ \E i \in 1..Len(futures) : WorkerFetch(i)
    \/ \E i \in 1..Len(futures) : SweepNoUrl(i)
    \/ \E i \in 1..Len(futures) : SweepFailure(i)
    \/ \E i \in 1..Len(futures) : SweepReconcile(i)
    \/ SweepEnd
    \/ RoundStart
    \/ RetryIssue
    \/ RetryFailure
    \/ RetryReconcile
    \/ RoundEnd
    \/ WriteOutput
    \/ SkipWrite

Spec == Init /\ [][Next]_vars

----------------------------------------------------------------------------
(* What the claims speak of *)

BadgeCount(m) == IntOr0(m, K_BADGES)

ArcadeCount(m) == IntOr0(m, K_ARCADE)

FlagFields == {K_ALL_DONE, K_PATHWAYS, K_GENAI}

\* this step is one iteration of the sweep's loop over as_completed
SweepHandles(i) == futures[i].st = "done" /\ futures'[i].st = "handled"

\* this step is the rest of one iteration of a retry round, after the GET
RetryHandles == pc = "retry_fetching" /\ pc' = "retry_next"

\* this step reconciled loc'.result against the record loc'.matched
ReconcileStep ==
    /\ (\E i \in 1..Len(futures) : SweepHandles(i)) \/ RetryHandles
    /\ loc'.matched # 0

\* the outcome is strictly greater than what is stored, in some category
Improves(result, m) ==
    Len(result.badges) > BadgeCount(m) \/ Len(result.arcade_games) > ArcadeCount(m)

\* the number of GETs that ended in an error, over the whole run
RECURSIVE CountErrors(_)
CountErrors(log) ==
    IF Len(log) = 0 THEN 0
    ELSE (IF Head(log) = "error" THEN 1 ELSE 0) + CountErrors(Tail(log))

RECURSIVE SumErrors(_)
SumErrors(n) == IF n = 0 THEN 0 ELSE CountErrors(fetch_log[n]) + SumErrors(n - 1)

\* C1: no step of a run lowers a record's stored skill-badge count or its
\* stored arcade-game count.
C1_CountsNeverDecrease ==
    [][\A i \in 1..Len(data) :
         /\ BadgeCount(data'[i]) >= BadgeCount(data[i])
         /\ ArcadeCount(data'[i]) >= ArcadeCount(data[i])]_vars

\* C2: a reconciliation changes the matched record if and only if the outcome
\* is strictly greater in some category; when it is not, the whole store and
\* the updated counter are left as they were.
C2_UpdateIffImproved ==
    [][ReconcileStep =>
         LET m == loc'.matched
             better == Improves(loc'.result, data[m])
         IN  /\ (data'[m] # data[m]) <=> better
             /\ better => updated' = updated + 1
             /\ ~better => (data' = data /\ updated' = updated)]_vars

C2_Witness ==
    /\ loc.matched # 0
    /\ loc.old_badge_count = 15 /\ loc.old_arcade_count = 2
    /\ Len(loc.result.badges) = 15 /\ Len(loc.result.arcade_games) = 2
    /\ data[loc.matched] = Alice
    /\ updated = 0

\* C3: an applied update writes both counts and both name fields from the
\* outcome, the category that did not improve included.
C3_UpdateWritesAllFields ==
    [][(ReconcileStep /\ Improves(loc'.result, data[loc'.matched])) =>
         LET m == loc'.matched
             result == loc'.result
         IN  /\ data'[m][K_BADGES] = Len(result.badges)
             /\ data'[m][K_ARCADE] = Len(result.arcade_games)
             /\ data'[m][K_BADGE_NAMES] = Join(result.badges)
             /\ data'[m][K_ARCADE_NAMES] = Join(result.arcade_games)]_vars

C3_Witness ==
    /\ loc.matched # 0
    /\ loc.old_badge_count = 15 /\ loc.old_arcade_count = 2
    /\ Len(loc.result.badges) = 16 /\ Len(loc.result.arcade_games) = 1
    /\ data[loc.matched][K_BADGES] = 16
    /\ data[loc.matched][K_ARCADE] = 1
    /\ data[loc.matched][K_ARCADE_NAMES] = "Level 1: Arcade [Game]"

\* C4: a step that changes a record's total or one of its counts is an update
\* that writes all three, the total as the sum of the two counts; so a record
\* once updated keeps total = badges + arcade games.
C4_TotalIsSum ==
    [][\A i \in 1..Len(data) :
         /\ (data'[i] # data[i]) =>
               /\ K_COURSES \in DOMAIN data'[i]
               /\ data'[i][K_COURSES] = BadgeCount(data'[i]) + ArcadeCount(data'[i])
         /\ (\/ IntOr0(data'[i], K_COURSES) # IntOr0(data[i], K_COURSES)
             \/ BadgeCount(data'[i]) # BadgeCount(data[i])
             \/ ArcadeCount(data'[i]) # ArcadeCount(data[i])) =>
               /\ ReconcileStep
               /\ loc'.matched = i
               /\ data'[i][K_BADGES] = Len(loc'.result.badges)
               /\ data'[i][K_ARCADE] = Len(loc'.result.arcade_games)
               /\ data'[i][K_COURSES] =
                    Len(loc'.result.badges) + Len(loc'.result.arcade_games)]_vars

C4_Witness ==
    /\ loc.matched # 0
    /\ data[loc.matched][K_NAME] = "Alice"
    /\ data[loc.matched][K_BADGES] = 18
    /\ data[loc.matched][K_ARCADE] = 5
    /\ data[loc.matched][K_COURSES] = 23

\* C5: after an applied update every completion flag present on the record is
\* "Yes" if the new counts are at least 19 skill badges and 1 arcade game, and
\* "No" otherwise; a step that changes a count recomputes them.
C5_CompletionFlags ==
    [][\A i \in 1..Len(data) :
         (data'[i] # data[i]) =>
            \A k \in {K_ALL_DONE, K_PATHWAYS} \cap DOMAIN data'[i] :
               data'[i][k] =
                  IF BadgeCount(data'[i]) >= 19 /\ ArcadeCount(data'[i]) >= 1
                  THEN "Yes" ELSE "No"]_vars

C5_Witness ==
    /\ loc.matched # 0
    /\ loc.old_badge_count = 15
    /\ data[loc.matched][K_BADGES] = 19
    /\ data[loc.matched][K_ARCADE] = 1
    /\ data[loc.matched][K_ALL_DONE] = "Yes"
    /\ data[loc.matched][K_PATHWAYS] = "Yes"

\* C6: no step adds a flag field to a record: each of the two completion
\* flags and the short arcade flag is present after a step only if it was
\* present before.
C6_FlagsOnlyIfPresent ==
    [][\A i \in 1..Len(data) :
         FlagFields \cap DOMAIN data'[i] = FlagFields \cap DOMAIN data[i]]_vars


\* the entries queued in q
Entries(q) == {q[k][1] : k \in 1..Len(q)}

\* the URLs queued in q
Urls(q) == {q[k][2] : k \in 1..Len(q)}

\* every GET issued for entry i ended in an error, the initial one and one
\* per retry round
AllFailed(i) ==
    /\ Len(fetch_log[i]) = 1 + args.retries
    /\ \A k \in 1..Len(fetch_log[i]) : fetch_log[i][k] = "error"

\* C7: a fetch that ended in an error has empty lists, is not reconciled and
\* changes no record; the sweep appends it to the failure queue, a retry round
\* carries it into the next round's queue.
C7_ErrorsNeverReconciled ==
    [][/\ \A i \in 1..Len(futures) :
            (SweepHandles(i) /\ futures[i].result.error # "") =>
               /\ futures[i].result.badges = <<>>
               /\ futures[i].result.arcade_games = <<>>
               /\ loc'.matched = 0
               /\ data' = data /\ updated' = updated
               /\ failed_fetches' =
                    Append(failed_fetches,
                           <<i, futures[i].result.url, futures[i].result.error>>)
       /\ (RetryHandles /\ loc'.result.error # "") =>
               /\ loc'.result.badges = <<>>
               /\ loc'.result.arcade_games = <<>>
               /\ loc'.matched = 0
               /\ data' = data /\ updated' = updated
               /\ remaining' =
                    Append(remaining,
                           <<failed_fetches[pos][1], failed_fetches[pos][2],
                             loc'.result.error>>)
       /\ (pc = "retry_next" /\ pc' = "round") => failed_fetches' = remaining]_vars

C7_Witness ==
    /\ pc = "round"
    /\ attempt = 2
    /\ Len(failed_fetches) = 2
    /\ \A i \in Entries(failed_fetches) : fetch_log[i] = <<"error", "error">>

\* C8: at most args.retries rounds run; a round fetches each queued entry
\* once; an entry is fetched at most 1 + args.retries times, and never again
\* after a fetch of it succeeded.
C8_RetriesBounded ==
    /\ attempt <= args.retries + 1
    /\ pc \in {"retry_next", "retry_fetching"} =>
          /\ attempt \in 1..args.retries
          /\ \A k \in 1..Len(failed_fetches) :
                Len(fetch_log[failed_fetches[k][1]]) =
                   IF k < pos THEN attempt + 1 ELSE attempt
          /\ \A i \in Entries(remaining) :
                fetch_log[i][Len(fetch_log[i])] = "error"
    /\ \A k, l \in 1..Len(failed_fetches) :
          k # l => failed_fetches[k][1] # failed_fetches[l][1]
    /\ \A i \in 1..Len(data) :
          /\ Len(fetch_log[i]) <= 1 + args.retries
          /\ \A k \in 1..(Len(fetch_log[i]) - 1) : fetch_log[i][k] = "error"
          /\ (Len(fetch_log[i]) > 0 /\ fetch_log[i][Len(fetch_log[i])] = "ok"
              /\ pc \in {"round", "summary", "exit"}) =>
                i \notin Entries(failed_fetches)

C8_Witness ==
    /\ pc = "exit"
    /\ args.retries = 2
    /\ \E i, j \in 1..Len(data) :
          /\ fetch_log[i] = <<"error", "ok">>
          /\ fetch_log[j] = <<"error", "error", "error">>

\* C9: when the run ends, the entries still queued are exactly the submitted
\* records whose every fetch failed, and so are their URLs; with two records,
\* one updated on retry round 1 and one failing throughout, updated = 1,
\* errors >= 1 and the second URL is still queued.
C9_StillFailing ==
    pc \in {"summary", "exit"} =>
       /\ Entries(failed_fetches) = {i \in to_process(data, args) : AllFailed(i)}
       /\ Urls(failed_fetches) =
             {UrlOf(data[i]) : i \in {j \in to_process(data, args) : AllFailed(j)}}
       /\ \A i \in 1..Len(data) :
             (\E k \in 1..Len(fetch_log[i]) : fetch_log[i][k] = "ok") =>
                i \notin Entries(failed_fetches)
       /\ \A a, b \in 1..Len(data) :
             (/\ Len(data) = 2 /\ a # b
              /\ fetch_log[a] = <<"error", "ok">>
              /\ data[a] \notin SampleRecords
              /\ AllFailed(b)) =>
                /\ updated = 1
                /\ errors >= 1
                /\ UrlOf(data[b]) \in Urls(failed_fetches)

C9_Witness ==
    /\ pc = "exit"
    /\ Len(data) = 2
    /\ args.retries = 2
    /\ fetch_log[1] = <<"error", "ok">>
    /\ data[1] \notin SampleRecords
    /\ fetch_log[2] = <<"error", "error", "error">>
    /\ updated = 1
    /\ Urls(failed_fetches) = {UrlOf(data[2])}

\* C10: when the run ends, the error counter is the number of fetches that
\* ended in an error, those of the retry rounds included.
C10_ErrorsCountEveryFailure ==
    pc = "exit" => errors = SumErrors(Len(data))

----------------------------------------------------------------------------
(* Record sets in which two records share a profile URL, or one record's URL
   contains another's.  Lines 249-261 search the whole record set for the
   outcome's URL, so these are the inputs where the search matters. *)

\* a second record with Alice's profile URL, in the second URL field
Dana ==
    (K_NAME :> "Dana") @@ (K_URL2 :> "prof/a") @@
    (K_BADGES :> 15) @@ (K_BADGE_NAMES :> Join(BadgeNames(15))) @@
    (K_ARCADE :> 1) @@ (K_ARCADE_NAMES :> Join(GameNames(1))) @@
    (K_COURSES :> 16) @@ (K_PATHWAYS :> "No")

\* a record whose profile URL contains Bob's
Erin == (K_NAME :> "Erin") @@ (K_URL :> "prof/b?tab=1") @@ (K_PATHWAYS :> "No")

\* the record sets json.load returns in these runs
DupDatasets ==
    {<<Alice, Dana>>, <<Dana, Alice>>, <<Bob, Erin>>, <<Erin, Bob>>,
     <<Carol, Erin>>, <<Alice, Bob>>}

InitDup == InitOn(DupDatasets)

SpecDup == InitDup /\ [][Next]_vars

\* the records whose stored fields differ from what was loaded
Changed == {i \in 1..Len(data) : data[i] # input[i]}

\* C11: at the end of the run the updated count equals the number of distinct
\* records whose stored fields changed during the run, also when two records
\* carry the same profile URL and their fetches return different results.
C11_UpdatedCountsRecords ==
    pc = "exit" => updated = Cardinality(Changed)

----------------------------------------------------------------------------
(* The sweep with a reconciliation in two steps, so that the workers of the
   pool run between the coordinator's reads and its writes. *)

\* lines 247-273: search, read the stored counts, compare
SweepCompare(i) ==
    /\ pc = "sweep"
    /\ futures[i].st = "done"
    /\ futures[i].err # "no-url"
    /\ ~IsFailure(futures[i].result)
    /\ LET result == futures[i].result
           matched == FindMatched(data, result.url)
       IN  IF matched = 0
           THEN /\ loc' = [NoLoc EXCEPT !.result = result]
                /\ pc' = pc
           ELSE LET old_badge_count == IntOr0(data[matched], K_BADGES)
                    old_arcade_count == IntOr0(data[matched], K_ARCADE)
                IN  /\ loc' = [result |-> result, matched |-> matched,
                               old_badge_count |-> old_badge_count,
                               old_arcade_count |-> old_arcade_count]
                    /\ pc' = IF ShouldUpdate(old_badge_count, old_arcade_count,
                                             Len(result.badges),
                                             Len(result.arcade_games))
                             THEN "updating" ELSE pc
    /\ futures' = [futures EXCEPT ![i] = Consumed]
    /\ UNCHANGED <<served, input, ex, args, data, updated, errors, failed_fetches, remaining,
                   attempt, pos, fetch_log, output>>

\* lines 277-298: the writes of the matched record, and the count
SweepApply ==
    /\ pc = "updating"
    /\ data' = [data EXCEPT ![loc.matched] =
                  UpdateRecord(@, loc.result.badges, loc.result.arcade_games)]
    /\ updated' = updated + 1
    /\ pc' = "sweep"
    /\ UNCHANGED <<served, input, ex, args, futures, errors, failed_fetches, remaining,
                   attempt, pos, loc, fetch_log, output>>

NextFine ==
    \/ Submit
    \/ \E i \in 1..Len(futures) :
         \/ WorkerStart(i)
         \/ WorkerNoUrl(i)
         \/ WorkerFetch(i)
         \/ SweepNoUrl(i)
         \/ SweepFailure(i)
         \/ SweepCompare(i)
    \/ SweepApply
    \/ SweepEnd
    \/ RoundStart
    \/ RetryIssue
    \/ RetryFailure
    \/ RetryReconcile
    \/ RoundEnd
    \/ WriteOutput
    \/ SkipWrite

SpecFine == Init /\ [][NextFine]_vars

\* a step of a worker task: a future starts running or gets its result
WorkerStep ==
    \E i \in 1..Len(futures) :
        /\ Len(futures') = Len(futures)
        /\ futures[i].st \in {"pending", "running"}
        /\ futures'[i].st \in {"running", "done"}
        /\ futures'[i].st # futures[i].st

\* C12: the record set is written only by the coordinating path (the writes
\* that end a reconciliation of the sweep or of a retry round), a step of a
\* worker task changes no record, and from a reconciliation's read of the
\* stored counts to its writes no other write reaches the record set: the
\* counts it compared are still the stored ones.
C12_OnlyCoordinatorWrites ==
    [][/\ WorkerStep => data' = data
       /\ data' # data => \/ pc = "updating" /\ pc' = "sweep"
                          \/ RetryHandles
       /\ pc' = "updating" =>
             /\ loc'.matched \in 1..Len(data')
             /\ loc'.old_badge_count = IntOr0(data'[loc'.matched], K_BADGES)
             /\ loc'.old_arcade_count = IntOr0(data'[loc'.matched], K_ARCADE)]_vars

\* a worker has delivered a result while the coordinator is between its
\* comparison and its writes
C12_Witness ==
    /\ pc = "updating"
    /\ \E i \in 1..Len(futures) :
         /\ futures[i].st = "done"
         /\ futures[i].err # "no-url"
         /\ futures[i].result.error = ""

\* the fetches in flight: the pool's running tasks, and the retry loop's one
\* sequential fetch (line 309)
InFlight == Cardinality(Running) + (IF pc = "retry_fetching" THEN 1 ELSE 0)

\* the coordinator is in the retry loop of lines 302-369
InRetry == pc \in {"round", "retry_next", "retry_fetching"}

\* C13: at most `concurrency` fetches are in flight during the sweep and at
\* most one during the retry rounds, and no retry attempt starts before every
\* task of the sweep has completed and been handled.
C13_FetchesInFlight ==
    /\ pc \in PoolOpen => InFlight <= args.concurrency
    /\ InRetry =>
          /\ InFlight <= 1
          /\ \A i \in 1..Len(futures) : futures[i].st = "handled"

\* the pool is full while a task waits
C13_Witness ==
    /\ pc = "sweep"
    /\ InFlight = args.concurrency
    /\ \E i \in 1..Len(futures) : futures[i].st = "pending"

\* the records whose URL is the outcome's URL
ExactMatches(url) == {i \in 1..Len(data) : UrlOf(data[i]) = url}

\* the records whose URL contains the outcome's URL or is contained in it
LooseMatches(url) ==
    {i \in 1..Len(data) :
        /\ UrlOf(data[i]) # ""
        /\ Contains(url, UrlOf(data[i])) \/ Contains(UrlOf(data[i]), url)}

\* j is the record a reconciliation of an outcome for url may change
IsTarget(j, url) ==
    \/ j \in ExactMatches(url) /\ \A k \in ExactMatches(url) : j <= k
    \/ /\ ExactMatches(url) = {}
       /\ j \in LooseMatches(url) /\ \A k \in LooseMatches(url) : j <= k

\* C14: a reconciliation changes at most one record: the first whose URL
\* equals the outcome's source URL or, only if none equals it, the first in a
\* containment relation with it; with no match nothing changes.  No step
\* adds, removes or reorders records or changes a record's URL field.
C14_OnlyTheMatchedRecord ==
    [][/\ Len(data') = Len(data)
       /\ \A j \in 1..Len(data) : \A k \in {K_NAME, K_URL, K_URL2} :
             /\ (k \in DOMAIN data'[j]) <=> (k \in DOMAIN data[j])
             /\ k \in DOMAIN data[j] => data'[j][k] = data[j][k]
       /\ data' # data =>
             /\ (\E i \in 1..Len(futures) : SweepHandles(i)) \/ RetryHandles
             /\ loc'.result.error = ""
             /\ \A j \in 1..Len(data) :
                   data'[j] # data[j] => IsTarget(j, loc'.result.url)]_vars

\* the second record was updated from an outcome for its URL, which the
\* first record's URL contains
C14_Witness ==
    /\ Len(data) = 2
    /\ loc.matched = 2
    /\ loc.result.url = UrlOf(data[2])
    /\ UrlOf(data[1]) # loc.result.url
    /\ Contains(loc.result.url, UrlOf(data[1]))
    /\ data[2] # input[2]
    /\ data[1] = input[1]

\* C15: a run that is not in preview mode writes the record set back exactly
\* once, at the end of the run, after the sweep and every retry round and
\* whatever the number of records updated; a run in preview mode never writes.
C15_WrittenOnceUnlessPreview ==
    /\ pc # "exit" => output = <<>>
    /\ pc = "exit" => Len(output) = (IF args.dry_run THEN 0 ELSE 1)

----------------------------------------------------------------------------
(* Termination.  The coordinator is one thread that never blocks except in
   as_completed, every GET returns (requests.get has a timeout, line 184),
   and the pool runs every task it was given: a step that is possible is
   eventually taken. *)

FairSpec == Spec /\ WF_vars(Next)

\* C16: every GET returning and the workers being scheduled, every run
\* reaches its final summary (line 374), for every record set, every number
\* of retry rounds and every pattern of failures; a failed fetch never ends
\* the run early.
C16_RunReachesSummary == <>(pc = "summary")

\* the summary is reached when every attempt of every entry has failed, in
\* the sweep and in each of the retry rounds
C16_Witness ==
    /\ pc = "summary"
    /\ args.retries = MaxRetries
    /\ \E i \in 1..Len(data) : UrlOf(data[i]) # ""
    /\ \A i \in 1..Len(data) :
          UrlOf(data[i]) # "" =>
              /\ Len(fetch_log[i]) = 1 + args.retries
              /\ \A k \in 1..Len(fetch_log[i]) : fetch_log[i][k] = "error"

----------------------------------------------------------------------------
\* the records with no usable URL in either field
NoUrlRecords == {i \in 1..Len(data) : UrlOf(data[i]) = ""}

\* the entries whose fetch in the sweep failed
SweepFailed ==
    {i \in 1..Len(data) : fetch_log[i] # <<>> /\ fetch_log[i][1] = "error"}

\* C17: a record with no usable URL is skipped: no fetch is issued for it, it
\* is not counted in the error count and never enters the failure queue, and
\* none of its fields changes during the run.
C17_NoUrlSkipped ==
    /\ \A i \in NoUrlRecords :
          /\ fetch_log[i] = <<>>
          /\ i \notin Entries(failed_fetches) \cup Entries(remaining)
          /\ data[i] = input[i]
    /\ errors <= Cardinality(SweepFailed)

\* a run over a record without URL and a record whose fetch failed has ended
C17_Witness ==
    /\ pc = "exit"
    /\ \E i \in NoUrlRecords : i \in to_process(data, args)
    /\ errors = 1

----------------------------------------------------------------------------
(* extract_badges_from_html, lines 41-178: the string functions it uses *)

\* the i-th character of s
Char(s, i) == SubSeq(s, i, i)

UpperCase == "ABCDEFGHIJKLMNOPQRSTUVWXYZ"
LowerCase == "abcdefghijklmnopqrstuvwxyz"
Digits == "0123456789"

\* the characters of the string s
CharsOf(s) == {Char(s, i) : i \in 1..Len(s)}

\* \s of the regular expressions, and what str.strip() removes
Whitespace == {" ", "\t", "\n", "\r"}

\* \w of the regular expressions
WordChars == CharsOf(UpperCase) \cup CharsOf(LowerCase) \cup CharsOf(Digits) \cup {"_"}

\* str.lower() on one character
LowerChar(c) ==
    IF c \in CharsOf(UpperCase)
    THEN Char(LowerCase, CHOOSE k \in 1..Len(UpperCase) : Char(UpperCase, k) = c)
    ELSE c

\* str.lower(): character by character, the string taken by halves
RECURSIVE Lower(_)
Lower(s) ==
    IF Len(s) > 1
    THEN Lower(SubSeq(s, 1, Len(s) \div 2)) \o Lower(SubSeq(s, Len(s) \div 2 + 1, Len(s)))
    ELSE LowerChar(s)

\* str.strip(): from the first to the last character that is not whitespace
Strip(s) ==
    LET solid == {i \in 1..Len(s) : Char(s, i) \notin Whitespace}
    IN  IF solid = {} THEN ""
        ELSE SubSeq(s, CHOOSE i \in solid : \A j \in solid : i <= j,
                       CHOOSE i \in solid : \A j \in solid : i >= j)

\* what re.sub(r'\s+', ' ', s) makes of the characters lo..hi of s: the
\* first character of a run of whitespace becomes a space, the others go
RECURSIVE CollapseRange(_, _, _)
CollapseRange(s, lo, hi) ==
    IF lo < hi
    THEN CollapseRange(s, lo, (lo + hi) \div 2) \o CollapseRange(s, (lo + hi) \div 2 + 1, hi)
    ELSE IF lo > hi THEN ""
    ELSE IF Char(s, lo) \notin Whitespace THEN Char(s, lo)
    ELSE IF lo > 1 /\ Char(s, lo - 1) \in Whitespace THEN ""
    ELSE " "

\* re.sub(r'\s+', ' ', s): every run of whitespace becomes one space
CollapseSpaces(s) == CollapseRange(s, 1, Len(s))

\* lines 87, 126, 148: re.sub(r'\s+', ' ', title).strip()
Normalize(s) == Strip(CollapseSpaces(s))

\* lines 47-49
is_negative_phrase(s) ==
    LET s2 == Lower(s)
    IN  \/ Contains("hasn't earned", s2)
        \/ Contains("has not earned", s2)
        \/ Contains("no badges", s2)
        \/ Contains("no skill badges", s2)

\* the first index from i on whose character is not in set, Len(s) + 1 if none
SkipWhile(s, i, set) ==
    CHOOSE j \in i..(Len(s) + 1) :
        /\ j = Len(s) + 1 \/ Char(s, j) \notin set
        /\ \A k \in i..(j - 1) : Char(s, k) \in set

\* lines 52-62: re.search(r"\blevel\s*\d+\b", title.lower())
is_arcade_game(title) ==
    LET title_lower == Lower(title)
        n == Len(title_lower)
    IN  \E p \in 1..n :
            /\ p + 4 <= n
            /\ SubSeq(title_lower, p, p + 4) = "level"
            /\ p = 1 \/ Char(title_lower, p - 1) \notin WordChars
            /\ LET q == SkipWhile(title_lower, p + 5, Whitespace)
                   r == SkipWhile(title_lower, q, CharsOf(Digits))
               IN  /\ r > q
                   /\ r > n \/ Char(title_lower, r) \notin WordChars

----------------------------------------------------------------------------
(* The document BeautifulSoup makes of the page text (line 42).  A node is a
   tag, with its name, its class list, its href ("" when it has none) and
   its children in order, or a string of text between tags. *)

Text(s) == [name |-> "#text", class |-> <<>>, href |-> "", text |-> s, kids |-> <<>>]

Tag(name, class, href, kids) ==
    [name |-> name, class |-> class, href |-> href, text |-> "", kids |-> kids]

IsTag(n) == n.name # "#text"

\* the nodes below a sequence of siblings, in document order: a node, then
\* what is below it, then its later siblings
RECURSIVE DescendantsOf(_)
DescendantsOf(kids) ==
    IF kids = <<>> THEN <<>>
    ELSE IF Len(kids) = 1 THEN <<kids[1]>> \o DescendantsOf(kids[1].kids)
    ELSE DescendantsOf(SubSeq(kids, 1, Len(kids) \div 2))
         \o DescendantsOf(SubSeq(kids, Len(kids) \div 2 + 1, Len(kids)))

\* the subsequence of seq whose elements are in the set keep
Filter(seq, keep) ==
    LET Kept(x) == x \in keep
    IN  SelectSeq(seq, Kept)

\* the tags below node, in document order: node.find_all(True)
TagsBelow(node) ==
    LET all == DescendantsOf(node.kids)
    IN  Filter(all, {all[i] : i \in {j \in 1..Len(all) : IsTag(all[j])}})

\* " ".join(strings)
RECURSIVE JoinWords(_)
JoinWords(strings) ==
    IF strings = <<>> THEN ""
    ELSE IF Len(strings) = 1 THEN strings[1]
    ELSE strings[1] \o " " \o JoinWords(Tail(strings))

\* the stripped strings below a sequence of siblings, the empty ones dropped
RECURSIVE StrippedStrings(_)
StrippedStrings(kids) ==
    IF kids = <<>> THEN <<>>
    ELSE LET n == Head(kids)
             own == IF IsTag(n) THEN StrippedStrings(n.kids)
                    ELSE IF Strip(n.text) = "" THEN <<>> ELSE <<Strip(n.text)>>
         IN  own \o StrippedStrings(Tail(kids))

\* el.get_text(separator=' ', strip=True), lines 81, 118, 142
get_text(el) == JoinWords(StrippedStrings(el.kids))

\* el.string is not None: a single child that is a string or has a string
RECURSIVE HasString(_)
HasString(el) ==
    /\ Len(el.kids) = 1
    /\ ~IsTag(el.kids[1]) \/ HasString(el.kids[1])

\* some class of the tag is c
HasClass(el, c) == \E i \in 1..Len(el.class) : el.class[i] = c

\* line 70: soup.select('.profile-badges .profile-badge'), over a sequence of
\* siblings that are inside a .profile-badges element or not
RECURSIVE SelectBlocks(_, _)
SelectBlocks(kids, inside) ==
    IF kids = <<>> THEN <<>>
    ELSE LET n == Head(kids)
         IN  (IF inside /\ IsTag(n) /\ HasClass(n, "profile-badge")
              THEN <<n>> ELSE <<>>)
             \o SelectBlocks(n.kids, inside \/ (IsTag(n) /\ HasClass(n, "profile-badges")))
             \o SelectBlocks(Tail(kids), inside)

\* the first element of seq that is in the set keep, as a sequence of 0 or 1
First(seq, keep) ==
    LET hits == Filter(seq, keep) IN IF hits = <<>> THEN <<>> ELSE <<hits[1]>>

\* lines 76-79: the title element of a block
TitleEl(blk) ==
    LET tags == TagsBelow(blk)
        below == {tags[i] : i \in 1..Len(tags)}
        titled == {t \in below : /\ t.name = "span"
                              /\ \E i \in 1..Len(t.class) : Contains("ql-title", t.class[i])}
        texted == {t \in below : t.name \in {"span", "div"} /\ HasString(t)}
    IN  IF First(tags, titled) # <<>> THEN First(tags, titled)
        ELSE First(tags, texted)

\* lines 80-83
TitleOf(blk) == IF TitleEl(blk) # <<>> THEN get_text(TitleEl(blk)[1]) ELSE ""

----------------------------------------------------------------------------
(* The four strategies.  st is the function's locals: badges, arcade_games,
   seen_badges, seen_arcade. *)

\* lines 43-44, 64-65
NoneFound == [badges |-> <<>>, arcade_games |-> <<>>,
              seen_badges |-> {}, seen_arcade |-> {}]

\* a mutant of AddBadge: the name is appended whether seen or not
AddBadgeAlways(st, name) ==
    [st EXCEPT !.seen_badges = @ \cup {name}, !.badges = Append(@, name)]

\* lines 102-104, 134-136, 156-158, 165-167
AddBadge(st, name) ==
    IF name \notin st.seen_badges
    THEN [st EXCEPT !.seen_badges = @ \cup {name}, !.badges = Append(@, name)]
    ELSE st

\* lines 96-98, 129-131, 151-153, 174-176
AddGame(st, name) ==
    IF name \notin st.seen_arcade
    THEN [st EXCEPT !.seen_arcade = @ \cup {name}, !.arcade_games = Append(@, name)]
    ELSE st

\* lines 85-104: one block of the structured scan
BlockStep(st, blk) ==
    LET title == TitleOf(blk)
    IN  IF title # ""
        THEN LET bnorm == Normalize(title)
             IN  IF is_arcade_game(bnorm)
                 THEN AddGame(st, bnorm \o " [Game]")
                 ELSE AddBadge(st, bnorm \o " [Skill Badge]")
        ELSE st

\* lines 74-104: the blocks in order.  The loop is taken by halves: half is
\* the locals after the first half of the blocks, and the second half goes
\* on from them.
RECURSIVE ScanBlocks(_, _)
ScanBlocks(st, blocks) ==
    IF Len(blocks) > 1
    THEN CHOOSE r \in {ScanBlocks(half, SubSeq(blocks, Len(blocks) \div 2 + 1, Len(blocks))) :
                       half \in {ScanBlocks(st, SubSeq(blocks, 1, Len(blocks) \div 2))}} : TRUE
    ELSE IF blocks = <<>> THEN st
    ELSE BlockStep(st, blocks[1])

\* a mutant of BlocksFound: only skill badges make the block scan final
BlocksFoundBadgesOnly(st) == st.badges # <<>>

\* line 108: if badges or arcade_games
BlocksFound(st) == st.badges # <<>> \/ st.arcade_games # <<>>

\* line 111
container_class_patterns ==
    <<"badg", "skill-badg", "badge-list", "badges-list",
      "public-profile__badges", "profile-badges">>

\* class_=re.compile(pat, re.I): some class of the tag contains the pattern,
\* whatever the case
ClassMatches(el, pat) ==
    \E i \in 1..Len(el.class) : Contains(pat, Lower(el.class[i]))

\* lines 112-114: the containers, pattern by pattern
RECURSIVE Containers(_, _)
Containers(soup, pats) ==
    IF pats = <<>> THEN <<>>
    ELSE IF Len(pats) = 1
         THEN LET tags == TagsBelow(soup)
                  hit == {tags[i] : i \in {j \in 1..Len(tags) : ClassMatches(tags[j], pats[1])}}
              IN  Filter(tags, hit)
         ELSE Containers(soup, SubSeq(pats, 1, Len(pats) \div 2))
              \o Containers(soup, SubSeq(pats, Len(pats) \div 2 + 1, Len(pats)))

\* lines 126-136: the insertion of the container scan
ContainerInsert(st, txt) ==
    LET bnorm == Normalize(txt)
    IN  IF is_arcade_game(bnorm)
        THEN AddGame(st, IF ~Contains("[Game]", bnorm) THEN bnorm \o " [Game]" ELSE bnorm)
        ELSE IF bnorm # "" THEN AddBadge(st, bnorm) ELSE st

\* lines 118-136: one element of a container
ContainerStep(st, el) ==
    LET txt == get_text(el)
        href == IF el.name = "a" THEN el.href ELSE ""
    IN  IF txt = "" THEN st
        ELSE IF is_negative_phrase(txt) THEN st
        ELSE IF \/ Contains("[Skill Badge]", txt)
                \/ Contains("skill badge", Lower(txt))
                \/ Contains("/badges", href)
                \/ Contains("/quests", href)
                \/ Contains("/skill", href)
             THEN ContainerInsert(st, txt)
             ELSE st

\* lines 117-136: the elements of a container in order
RECURSIVE ScanElements(_, _)
ScanElements(st, els) ==
    IF Len(els) > 1
    THEN CHOOSE r \in {ScanElements(half, SubSeq(els, Len(els) \div 2 + 1, Len(els))) :
                       half \in {ScanElements(st, SubSeq(els, 1, Len(els) \div 2))}} : TRUE
    ELSE IF els = <<>> THEN st
    ELSE ContainerStep(st, els[1])

\* line 117: cont.find_all(['a', 'li', 'div', 'span'], recursive=True)
ElementsOf(cont) ==
    LET tags == TagsBelow(cont)
    IN  Filter(tags, {tags[i] : i \in {j \in 1..Len(tags) :
                                        tags[j].name \in {"a", "li", "div", "span"}}})

\* lines 116-136
RECURSIVE ScanContainers(_, _)
ScanContainers(st, containers) ==
    IF Len(containers) > 1
    THEN CHOOSE r \in {ScanContainers(half, SubSeq(containers, Len(containers) \div 2 + 1, Len(containers))) :
                       half \in {ScanContainers(st, SubSeq(containers, 1, Len(containers) \div 2))}} : TRUE
    ELSE IF containers = <<>> THEN st
    ELSE ScanElements(st, ElementsOf(containers[1]))

\* lines 148-158: the insertion of the link scan
LinkInsert(st, txt) ==
    LET bnorm == Normalize(txt)
    IN  IF is_arcade_game(bnorm)
        THEN AddGame(st, IF ~Contains("[Game]", bnorm) THEN bnorm \o " [Game]" ELSE bnorm)
        ELSE IF bnorm # "" THEN AddBadge(st, bnorm) ELSE st

\* lines 140-158: one anchor
LinkStep(st, a) ==
    LET href == a.href
        txt == get_text(a)
    IN  IF txt = "" THEN st
        ELSE IF is_negative_phrase(txt) THEN st
        ELSE IF \/ Contains("/badges", href)
                \/ Contains("badge", Lower(href))
                \/ Contains("/quests", href)
             THEN LinkInsert(st, txt)
             ELSE st

\* line 139: soup.find_all('a', href=True)
Anchors(soup) ==
    LET tags == TagsBelow(soup)
    IN  Filter(tags, {tags[i] : i \in {j \in 1..Len(tags) :
                                        tags[j].name = "a" /\ tags[j].href # ""}})

\* lines 139-158
RECURSIVE ScanLinks(_, _)
ScanLinks(st, anchors) ==
    IF Len(anchors) > 1
    THEN CHOOSE r \in {ScanLinks(half, SubSeq(anchors, Len(anchors) \div 2 + 1, Len(anchors))) :
                       half \in {ScanLinks(st, SubSeq(anchors, 1, Len(anchors) \div 2))}} : TRUE
    ELSE IF anchors = <<>> THEN st
    ELSE LinkStep(st, anchors[1])

\* the characters of the regular expressions' class [A-Za-z0-9\-:,() '&]
NameChars ==
    CharsOf(UpperCase) \cup CharsOf(LowerCase) \cup CharsOf(Digits)
        \cup {"-", ":", ",", "(", ")", " ", "'", "&"}

\* the start of the longest run of NameChars that ends just before q
RunStart(s, q) ==
    CHOOSE p \in 1..q :
        /\ \A k \in p..(q - 1) : Char(s, k) \in NameChars
        /\ p = 1 \/ Char(s, p - 1) \notin NameChars

\* re.finditer(r"([A-Za-z0-9\-:,() '&]+" + tag + ")", s) from position q on,
\* tag being "[Skill Badge]" or "[Game]": a match is a non-empty run of
\* NameChars followed by the tag, and "[" and "]" are not NameChars
RECURSIVE MatchesFrom(_, _, _)
MatchesFrom(s, q, tag) ==
    LET tags == {t \in q..(Len(s) - Len(tag) + 1) : SubSeq(s, t, t + Len(tag) - 1) = tag}
    IN  IF tags = {} THEN <<>>
        ELSE LET t == CHOOSE x \in tags : \A y \in tags : x <= y
             IN  (IF RunStart(s, t) < t
                  THEN <<SubSeq(s, RunStart(s, t), t + Len(tag) - 1)>> ELSE <<>>)
                 \o MatchesFrom(s, t + Len(tag), tag)

\* the strings of the page text, tag by tag in document order.  "<", ">",
\* "=", the quotes and "/" are not NameChars, so a match lies inside one run
\* of text between two tags.
RawStrings(soup) ==
    LET all == DescendantsOf(soup.kids)
    IN  Filter(all, {all[i] : i \in {j \in 1..Len(all) : ~IsTag(all[j])}})

\* the matches of the whole text
RECURSIVE FindAll(_, _)
FindAll(strings, tag) ==
    IF strings = <<>> THEN <<>>
    ELSE MatchesFrom(Head(strings).text, 1, tag) \o FindAll(Tail(strings), tag)

\* lines 161-167
RECURSIVE ScanBadgeMatches(_, _)
ScanBadgeMatches(st, ms) ==
    IF Len(ms) > 1
    THEN CHOOSE r \in {ScanBadgeMatches(half, SubSeq(ms, Len(ms) \div 2 + 1, Len(ms))) :
                       half \in {ScanBadgeMatches(st, SubSeq(ms, 1, Len(ms) \div 2))}} : TRUE
    ELSE IF ms = <<>> THEN st
    ELSE LET b == Strip(ms[1])
         IN  IF is_negative_phrase(b) THEN st ELSE AddBadge(st, b)

\* lines 170-176
RECURSIVE ScanGameMatches(_, _)
ScanGameMatches(st, ms) ==
    IF Len(ms) > 1
    THEN CHOOSE r \in {ScanGameMatches(half, SubSeq(ms, Len(ms) \div 2 + 1, Len(ms))) :
                       half \in {ScanGameMatches(st, SubSeq(ms, 1, Len(ms) \div 2))}} : TRUE
    ELSE IF ms = <<>> THEN st
    ELSE LET g == Strip(ms[1])
         IN  IF is_negative_phrase(g) THEN st ELSE AddGame(st, g)

----------------------------------------------------------------------------
(* Pages: what a profile page is made of *)

MaxFragments == 2

NegativeText == "User hasn't earned any badges yet"

\* the block of one achievement on a profile page: image link, title, date
Block(title) ==
    Tag("div", <<"profile-badge">>, "",
        <<Tag("a", <<"badge-image">>, "/public_profiles/badges/1",
              <<Tag("img", <<>>, "", <<>>)>>),
          Tag("span", <<"ql-title-medium", "l-mts">>, "", <<Text(title)>>),
          Tag("span", <<"ql-body-medium", "l-mbs">>, "", <<Text("Earned Oct 1, 2025 EDT")>>)>>)

Section(blocks) == Tag("div", <<"profile-badges">>, "", blocks)

Fragments ==
    {Section(<<Block("Prompt Design in Vertex AI")>>),
     Section(<<Block("Level 3: Generative AI")>>),
     Section(<<Block(NegativeText)>>),
     \* a block without a title span: the title is the first element with text
     Section(<<Tag("div", <<"profile-badge">>, "",
                   <<Tag("div", <<>>, "", <<Text("  Prompt  Design in\n Vertex AI ")>>)>>)>>),
     \* a block whose title is empty
     Section(<<Tag("div", <<"profile-badge">>, "",
                   <<Tag("span", <<"ql-title-medium">>, "", <<>>)>>)>>),
     Tag("ul", <<"Badge-List">>, "",
         <<Tag("li", <<>>, "", <<Text("Prompt Design in Vertex AI [Skill Badge]")>>),
           Tag("li", <<>>, "",
               <<Tag("a", <<>>, "/quests/3", <<Text("Level 3: Generative AI")>>)>>)>>),
     Tag("a", <<>>, "/public_profiles/badges/77", <<Text("Prompt Design in Vertex AI")>>),
     Tag("a", <<>>, "/public_profiles/badges", <<Text(NegativeText)>>),
     Tag("p", <<>>, "", <<Text("Prompt Design in Vertex AI [Skill Badge]")>>),
     Tag("p", <<>>, "", <<Text("Level 3: Generative AI [Game]")>>)}

\* the documents: 1..MaxFragments fragments in a body
Pages ==
    {Tag("[document]", <<>>, "", kids) :
        kids \in UNION {[1..n -> Fragments] : n \in 1..MaxFragments}}

----------------------------------------------------------------------------
(* One call of extract_badges_from_html, strategy by strategy *)

\* the locals of the call
Locals(e) == [badges |-> e.badges, arcade_games |-> e.arcade_games,
              seen_badges |-> e.seen_badges, seen_arcade |-> e.seen_arcade]

\* the call at phase, with the locals st
At(phase, page, st) ==
    [phase |-> phase, page |-> page,
     badges |-> st.badges, arcade_games |-> st.arcade_games,
     seen_badges |-> st.seen_badges, seen_arcade |-> st.seen_arcade]

\* the function is called on a page; no run of main() is going on
InitExtract ==
    /\ ex \in {At("called", page, NoneFound) : page \in Pages}
    /\ args = [concurrency |-> 1, retries |-> 0, dry_run |-> TRUE, max |-> 0]
    /\ data = <<>>
    /\ input = <<>>
    /\ served = <<>>
    /\ futures = <<>>
    /\ updated = 0
    /\ errors = 0
    /\ failed_fetches = <<>>
    /\ remaining = <<>>
    /\ attempt = 0
    /\ pos = 0
    /\ pc = "extract"
    /\ loc = NoLoc
    /\ fetch_log = <<>>
    /\ output = <<>>

\* lines 64-104
ExtractBlocks ==
    /\ ex.phase = "called"
    /\ \E blocks \in {SelectBlocks(ex.page.kids, FALSE)} :
       \E st \in {ScanBlocks(NoneFound, blocks)} :
           ex' = At("blocks_scanned", ex.page, st)
    /\ UNCHANGED <<served, input, args, data, futures, updated, errors, failed_fetches,
                   remaining, attempt, pos, pc, loc, fetch_log, output>>

\* lines 108-109
ExtractReturnBlocks ==
    /\ ex.phase = "blocks_scanned"
    /\ BlocksFound(Locals(ex))
    /\ ex' = [ex EXCEPT !.phase = "returned"]
    /\ UNCHANGED <<served, input, args, data, futures, updated, errors, failed_fetches,
                   remaining, attempt, pos, pc, loc, fetch_log, output>>

\* lines 111-136
ExtractContainers ==
    /\ ex.phase = "blocks_scanned"
    /\ ~BlocksFound(Locals(ex))
    /\ \E containers \in {Containers(ex.page, container_class_patterns)} :
       \E st \in {ScanContainers(Locals(ex), containers)} :
           ex' = At("containers_scanned", ex.page, st)
    /\ UNCHANGED <<served, input, args, data, futures, updated, errors, failed_fetches,
                   remaining, attempt, pos, pc, loc, fetch_log, output>>

\* lines 139-158
ExtractLinks ==
    /\ ex.phase = "containers_scanned"
    /\ \E anchors \in {Anchors(ex.page)} :
       \E st \in {ScanLinks(Locals(ex), anchors)} :
           ex' = At("links_scanned", ex.page, st)
    /\ UNCHANGED <<served, input, args, data, futures, updated, errors, failed_fetches,
                   remaining, attempt, pos, pc, loc, fetch_log, output>>

\* lines 161-178
ExtractRegex ==
    /\ ex.phase = "links_scanned"
    /\ \E strings \in {RawStrings(ex.page)} :
       \E badged \in {ScanBadgeMatches(Locals(ex), FindAll(strings, "[Skill Badge]"))} :
       \E st \in {ScanGameMatches(badged, FindAll(strings, "[Game]"))} :
           ex' = At("returned", ex.page, st)
    /\ UNCHANGED <<served, input, args, data, futures, updated, errors, failed_fetches,
                   remaining, attempt, pos, pc, loc, fetch_log, output>>

NextExtract ==
    \/ ExtractBlocks
    \/ ExtractReturnBlocks
    \/ ExtractContainers
    \/ ExtractLinks
    \/ ExtractRegex

SpecExtract == InitExtract /\ [][NextExtract]_vars

----------------------------------------------------------------------------
\* no two elements of seq are equal
NoDuplicates(seq) == \A i, j \in 1..Len(seq) : i # j => seq[i] # seq[j]

\* a is the beginning of b
IsPrefix(a, b) == Len(a) <= Len(b) /\ SubSeq(b, 1, Len(a)) = a

\* C18: for every page, neither the skill-badge list nor the arcade list
\* holds two equal strings, and each list keeps its names in the order of
\* first occurrence across the strategies in their evaluation order: a
\* strategy only appends to what the earlier ones listed.
C18_NoDuplicatesInOrder ==
    [][/\ NoDuplicates(ex'.badges)
       /\ NoDuplicates(ex'.arcade_games)
       /\ IsPrefix(ex.badges, ex'.badges)
       /\ IsPrefix(ex.arcade_games, ex'.arcade_games)]_vars

\* a list of achievements tagged in a container, then the same tagged name
\* in the page text: the regex fallback finds it again, it is listed once
C18_Witness ==
    /\ ex.phase = "returned"
    /\ Len(ex.page.kids) = 2
    /\ ex.page.kids[1].name = "ul"
    /\ ex.page.kids[2] = Tag("p", <<>>, "", <<Text("Prompt Design in Vertex AI [Skill Badge]")>>)
    /\ ex.badges = <<"Prompt Design in Vertex AI [Skill Badge]">>

\* what the structured block scan yields on the page of the call
BlockResult == ScanBlocks(NoneFound, SelectBlocks(ex.page.kids, FALSE))

\* what the three fallbacks yield on the page of the call, one after the
\* other from empty lists
FallbackResult ==
    CHOOSE r \in
        {ScanGameMatches(badged, FindAll(RawStrings(ex.page), "[Game]")) :
            badged \in
                {ScanBadgeMatches(linked, FindAll(RawStrings(ex.page), "[Skill Badge]")) :
                    linked \in
                        {ScanLinks(contained, Anchors(ex.page)) :
                            contained \in
                                {ScanContainers(NoneFound,
                                                Containers(ex.page, container_class_patterns))}}}} :
        TRUE

\* C19: if the block scan yields a name in either category the function
\* returns exactly the block scan's two lists, and no fallback runs; only
\* when it yields nothing in both do the three fallbacks run, all three, and
\* the function returns what they accumulate.
C19_BlockScanAuthoritative ==
    LET found == BlockResult.badges # <<>> \/ BlockResult.arcade_games # <<>>
    IN  /\ ex.phase \in {"containers_scanned", "links_scanned"} => ~found
        /\ ex.phase = "returned" =>
              IF found
              THEN /\ ex.badges = BlockResult.badges
                   /\ ex.arcade_games = BlockResult.arcade_games
              ELSE /\ ex.badges = FallbackResult.badges
                   /\ ex.arcade_games = FallbackResult.arcade_games

\* a page with one arcade block and a list the fallbacks would accept: the
\* call returned the block's game only
C19_Witness ==
    /\ ex.phase = "returned"
    /\ Len(ex.page.kids) = 2
    /\ ex.page.kids[1] = Section(<<Block("Level 3: Generative AI")>>)
    /\ ex.page.kids[2].name = "ul"
    /\ ex.badges = <<>>
    /\ ex.arcade_games = <<"Level 3: Generative AI [Game]">>

\* C20: in every strategy, the structured block scan included, a candidate
\* text that contains a negative phrase is discarded before classification:
\* no listed name contains one, and "User hasn't earned any badges yet"
\* yields nothing wherever it stands in the page.
C20_NegativePhrasesDiscarded ==
    /\ \A i \in 1..Len(ex.badges) : ~is_negative_phrase(ex.badges[i])
    /\ \A i \in 1..Len(ex.arcade_games) : ~is_negative_phrase(ex.arcade_games[i])

\* C21: every name the container scan or the link scan inserts carries the
\* tag of its list, "[Skill Badge]" or "[Game]" being appended to a candidate
\* that lacks it before the duplicate check.  After these two scans, which
\* start from empty lists, every listed name is tagged.
C21_FallbackNamesTagged ==
    ex.phase \in {"containers_scanned", "links_scanned"} =>
        /\ \A i \in 1..Len(ex.badges) : Contains("[Skill Badge]", ex.badges[i])
        /\ \A i \in 1..Len(ex.arcade_games) : Contains("[Game]", ex.arcade_games[i])

----------------------------------------------------------------------------
(* Runs in which the answer of the site to each GET is settled before the run:
   the k-th GET issued for entry i returns served[i][k], whenever the pool or
   the retry loop gets to issue it. *)

\* the answers to the GETs of one URL, 1 + retries of them at most.  After
\* the first answer without an error no further GET is issued for the URL,
\* so the answers after it are left equal to it.
Schedules(url, n) ==
    IF url = "" THEN {<<>>}
    ELSE {s \in [1..n -> fetch_profile(url)] :
             \A k \in 1..n : \A j \in k..n : s[k].error = "" => s[j] = s[k]}

\* record sets whose URLs are pairwise distinct; Erin's contains Bob's
FixedDatasets == {<<Alice, Bob>>, <<Bob, Erin>>, <<Erin, Bob>>, <<Alice, Carol>>}

\* the command lines of these runs: every record processed, output written
FixedArgSets == {a \in ArgSets : ~a.dry_run /\ a.max = 0}

InitFixed ==
    /\ args \in FixedArgSets
    /\ data \in FixedDatasets
    /\ input = data
    /\ served \in {f \in [1..Len(data) -> UNION {Schedules(UrlOf(data[i]), 1 + args.retries) :
                                                  i \in 1..Len(data)}] :
                      \A i \in 1..Len(data) :
                          f[i] \in Schedules(UrlOf(data[i]), 1 + args.retries)}
    /\ ex = ExIdle
    /\ futures = <<>>
    /\ updated = 0
    /\ errors = 0
    /\ failed_fetches = <<>>
    /\ remaining = <<>>
    /\ attempt = 0
    /\ pos = 0
    /\ pc = "submit"
    /\ loc = NoLoc
    /\ fetch_log = [i \in 1..Len(data) |-> <<>>]
    /\ output = <<>>

\* line 199 in the pool: the first GET of entry i
FixedWorkerFetch(i) ==
    /\ WorkerFetch(i)
    /\ futures'[i].result = served[i][1]

\* the GET of line 309 is the next one of the queued entry
NextServed ==
    LET entry == failed_fetches[pos][1]
    IN  served[entry][Len(fetch_log[entry]) + 1]

FixedRetryFailure ==
    /\ RetryFailure
    /\ loc'.result = NextServed

FixedRetryReconcile ==
    /\ RetryReconcile
    /\ loc'.result = NextServed

NextFixed ==
    \/ Submit
    \/ \E i \in 1..Len(futures) :
         \/ WorkerStart(i)
         \/ WorkerNoUrl(i)
         \/ FixedWorkerFetch(i)
         \/ SweepNoUrl(i)
         \/ SweepFailure(i)
         \/ SweepReconcile(i)
    \/ SweepEnd
    \/ RoundStart
    \/ RetryIssue
    \/ FixedRetryFailure
    \/ FixedRetryReconcile
    \/ RoundEnd
    \/ WriteOutput
    \/ SkipWrite

SpecFixed == InitFixed /\ [][NextFixed]_vars

\* the entries a GET is issued for
Fetched == {i \in to_process(input, args) : UrlOf(input[i]) # ""}

\* the first GET of entry i that is answered without an error, 0 if none is
FirstOk(i) ==
    LET ok == {k \in 1..Len(served[i]) : served[i][k].error = ""}
    IN  IF ok = {} THEN 0 ELSE CHOOSE k \in ok : \A j \in ok : k <= j

\* the entries whose first good answer is more than what was loaded
Gains == {i \in Fetched : FirstOk(i) # 0 /\ Improves(served[i][FirstOk(i)], input[i])}

\* what the answers make of record i, whatever the order of the tasks
ExpectedRecord(i) ==
    IF i \in Gains
    THEN LET r == served[i][FirstOk(i)]
         IN  IF FirstOk(i) = 1 THEN UpdateRecord(input[i], r.badges, r.arcade_games)
             ELSE RetryUpdateRecord(input[i], r.badges, r.arcade_games)
    ELSE input[i]

\* C22: for a record set with pairwise distinct URLs and settled answers to
\* every GET, the end of the run is the same whatever the order in which
\* the sweep's tasks complete: the record set, the updated count, the error
\* count and the set of URLs still failing are functions of the loaded
\* records, the command line and the answers alone.
C22_OrderDoesNotMatter ==
    pc = "exit" =>
        /\ data = [i \in 1..Len(input) |-> ExpectedRecord(i)]
        /\ updated = Cardinality(Gains)
        /\ errors = Cardinality({i \in Fetched : served[i][1].error # ""})
        /\ Urls(failed_fetches) = {UrlOf(input[i]) : i \in {j \in Fetched : FirstOk(j) = 0}}

\* the second task has completed and its record is updated while the first
\* task, whose answer is good too, has not been handled
C22_Witness ==
    /\ pc = "sweep"
    /\ Len(futures) = 2
    /\ futures[2].st = "handled"
    /\ data[2] # input[2]
    /\ futures[1].st \in {"running", "done"}
    /\ 1 \in Gains

====
